---- MODULE Spec2Model ----
(***************************************************************************)
(* Model of samples/shared_libraries.py (BinaryCodec) and                  *)
(* samples/redis_client_config.py (BinaryRedisClient).                     *)
(*                                                                         *)
(* Python values are tagged records; byte strings are sequences of         *)
(* 0..255.  msgpack.packb / msgpack.unpackb and json.dumps / json.loads    *)
(* are modelled at the byte level for the value kinds of the model.        *)
(* Integers are kept as decimal digit sequences so that the 64-bit limit   *)
(* of the binary format is the real one.                                   *)
(***************************************************************************)
EXTENDS Integers, Sequences, FiniteSets, TLC

VARIABLES store, written, codec, last

vars == <<store, written, codec, last>>

(* ------------------------------ bounds -------------------------------- *)

\* longest list / tuple generated for the value domain
MaxItems == 1

\* longest batch handed to pipeline_binary_ops
MaxBatch == 2

(* --------------------------- Python values ---------------------------- *)

PyNone == [t |-> "NoneType"]

PyBool(b) == [t |-> "bool", v |-> b]

\* v: decimal digits, most significant first, no leading zero
PyInt(ds) == [t |-> "int", v |-> ds]

\* v: the code points of the text
PyStr(cs) == [t |-> "str", v |-> cs]

PyBytes(bs) == [t |-> "bytes", v |-> bs]

PyList(xs) == [t |-> "list", v |-> xs]

PyTuple(xs) == [t |-> "tuple", v |-> xs]

\* v: sequence of <<key, value>> pairs
PyDict(ps) == [t |-> "dict", v |-> ps]

\* a value neither serializer knows (an arbitrary object)
PyObject == [t |-> "object"]

\* bool(x) of Python for the values of the model
Truthy(x) ==
    CASE x.t = "NoneType" -> FALSE
      [] x.t = "bool" -> x.v
      [] x.t = "int" -> x.v # <<0>>
      [] x.t = "object" -> TRUE
      [] OTHER -> Len(x.v) > 0

RECURSIVE PyEq(_, _)
\* a == b of Python (containers compare element-wise, tuple # list)
PyEq(a, b) ==
    IF a.t # b.t THEN FALSE
    ELSE CASE a.t \in {"list", "tuple"} ->
                /\ Len(a.v) = Len(b.v)
                /\ \A i \in 1..Len(a.v) : PyEq(a.v[i], b.v[i])
           [] a.t = "dict" ->
                /\ Len(a.v) = Len(b.v)
                /\ \A i \in 1..Len(a.v) :
                      \E j \in 1..Len(b.v) :
                          /\ PyEq(a.v[i][1], b.v[j][1])
                          /\ PyEq(a.v[i][2], b.v[j][2])
           [] OTHER -> a = b

(* ----------------------- arbitrary-size integers ---------------------- *)

RECURSIVE StripZeros(_)
StripZeros(ds) ==
    IF Len(ds) > 1 /\ ds[1] = 0 THEN StripZeros(Tail(ds)) ELSE ds

RECURSIVE LongDiv(_, _, _, _)
\* decimal long division of ds by 256: quotient digits and remainder
LongDiv(ds, i, rem, acc) ==
    IF i > Len(ds) THEN [q |-> StripZeros(acc), r |-> rem]
    ELSE LET cur == rem * 10 + ds[i]
         IN LongDiv(ds, i + 1, cur % 256, Append(acc, cur \div 256))

RECURSIVE IntToBytes(_)
\* big-endian base-256 digits of a non-negative integer (<<>> for 0)
IntToBytes(ds) ==
    IF ds = <<0>> THEN <<>>
    ELSE LET d == LongDiv(ds, 1, 0, <<>>)
         IN Append(IntToBytes(d.q), d.r)

RECURSIVE MulAdd(_, _, _, _)
\* ds * 256 + carry, on decimal digits, from the least significant digit
MulAdd(ds, i, carry, acc) ==
    IF i = 0
    THEN IF carry = 0 THEN acc
         ELSE MulAdd(ds, 0, carry \div 10, <<carry % 10>> \o acc)
    ELSE LET cur == ds[i] * 256 + carry
         IN MulAdd(ds, i - 1, cur \div 10, <<cur % 10>> \o acc)

RECURSIVE BytesToInt(_, _)
\* the integer whose big-endian base-256 digits are bs, after acc
BytesToInt(bs, acc) ==
    IF bs = <<>> THEN StripZeros(IF acc = <<>> THEN <<0>> ELSE acc)
    ELSE BytesToInt(Tail(bs), MulAdd(acc, Len(acc), Head(bs), <<>>))

RECURSIVE ZeroPad(_, _)
ZeroPad(bs, n) == IF Len(bs) >= n THEN bs ELSE ZeroPad(<<0>> \o bs, n)

(* ------------------------------- UTF-8 -------------------------------- *)

Raise(e) == [ok |-> FALSE, exc |-> e]

Bytes(bs) == [ok |-> TRUE, b |-> bs]

\* the UTF-8 bytes of one code point that is no surrogate
Utf8Char(c) ==
    CASE c < 128 -> <<c>>
      [] c \in 128..2047 -> <<192 + (c \div 64), 128 + (c % 64)>>
      [] c \in 2048..65535 ->
            <<224 + (c \div 4096), 128 + ((c \div 64) % 64), 128 + (c % 64)>>
      [] OTHER ->
            <<240 + (c \div 262144), 128 + ((c \div 4096) % 64),
              128 + ((c \div 64) % 64), 128 + (c % 64)>>

RECURSIVE Utf8Encode(_, _, _)
\* str.encode('utf-8'): surrogates are not encodable
Utf8Encode(cs, i, acc) ==
    IF i > Len(cs) THEN Bytes(acc)
    ELSE IF cs[i] \in 55296..57343 THEN Raise("UnicodeEncodeError")
    ELSE Utf8Encode(cs, i + 1, acc \o Utf8Char(cs[i]))

IsCont(bs, i) == i <= Len(bs) /\ bs[i] \in 128..191

RECURSIVE Utf8Decode(_, _, _)
\* bytes.decode('utf-8') from position i on: the code points, or a failure
\* on an invalid, overlong, surrogate or truncated sequence
Utf8Decode(bs, i, acc) ==
    IF i > Len(bs) THEN [ok |-> TRUE, cs |-> acc]
    ELSE LET c == bs[i]
         IN CASE c < 128 -> Utf8Decode(bs, i + 1, Append(acc, c))
              [] c \in 194..223 /\ IsCont(bs, i + 1) ->
                    Utf8Decode(bs, i + 2,
                        Append(acc, (c - 192) * 64 + (bs[i + 1] - 128)))
              [] /\ c \in 224..239
                 /\ IsCont(bs, i + 1) /\ IsCont(bs, i + 2)
                 /\ (c = 224 => bs[i + 1] >= 160)
                 /\ (c = 237 => bs[i + 1] <= 159) ->
                    Utf8Decode(bs, i + 3,
                        Append(acc, (c - 224) * 4096 + (bs[i + 1] - 128) * 64
                                        + (bs[i + 2] - 128)))
              [] /\ c \in 240..244
                 /\ IsCont(bs, i + 1) /\ IsCont(bs, i + 2)
                 /\ IsCont(bs, i + 3)
                 /\ (c = 240 => bs[i + 1] >= 144)
                 /\ (c = 244 => bs[i + 1] <= 143) ->
                    Utf8Decode(bs, i + 4,
                        Append(acc, (c - 240) * 262144
                                        + (bs[i + 1] - 128) * 4096
                                        + (bs[i + 2] - 128) * 64
                                        + (bs[i + 3] - 128)))
              [] OTHER -> Raise("UnicodeDecodeError")

(* --------------------------- msgpack.packb ---------------------------- *)

\* BinaryCodec._msgpack_encoder, the default= hook: it is handed the values
\* the packer cannot represent; for the values of the model it fails
MsgpackEncoder(o) == Raise("TypeError")

\* packing of an int: fixint, uint8/16/32/64, else the default hook
PackInt(o) ==
    LET bs == IntToBytes(o.v)
    IN CASE Len(bs) = 0 -> Bytes(<<0>>)
         [] Len(bs) = 1 /\ bs[1] < 128 -> Bytes(bs)
         [] Len(bs) = 1 /\ bs[1] >= 128 -> Bytes(<<204>> \o bs)
         [] Len(bs) = 2 -> Bytes(<<205>> \o bs)
         [] Len(bs) \in 3..4 -> Bytes(<<206>> \o ZeroPad(bs, 4))
         [] Len(bs) \in 5..8 -> Bytes(<<207>> \o ZeroPad(bs, 8))
         [] OTHER -> MsgpackEncoder(o)

RECURSIVE Pack(_)
RECURSIVE PackItems(_, _, _)
RECURSIVE PackPairs(_, _, _)

\* the packed items of a list or tuple, or the first failure
PackItems(xs, i, acc) ==
    IF i > Len(xs) THEN Bytes(acc)
    ELSE LET r == Pack(xs[i])
         IN IF r.ok THEN PackItems(xs, i + 1, acc \o r.b) ELSE r

\* the packed key/value pairs of a dict, or the first failure
PackPairs(ps, i, acc) ==
    IF i > Len(ps) THEN Bytes(acc)
    ELSE LET k == Pack(ps[i][1])
         IN IF ~k.ok THEN k
            ELSE LET w == Pack(ps[i][2])
                 IN IF w.ok THEN PackPairs(ps, i + 1, acc \o k.b \o w.b)
                    ELSE w

\* msgpack.packb(o, default=self._msgpack_encoder)
Pack(o) ==
    CASE o.t = "NoneType" -> Bytes(<<192>>)
      [] o.t = "bool" -> Bytes(IF o.v THEN <<195>> ELSE <<194>>)
      [] o.t = "int" -> PackInt(o)
      [] o.t = "str" ->
            LET u == Utf8Encode(o.v, 1, <<>>)
            IN IF ~u.ok THEN u
               ELSE IF Len(u.b) <= 31 THEN Bytes(<<160 + Len(u.b)>> \o u.b)
               ELSE Bytes(<<217, Len(u.b)>> \o u.b)
      [] o.t = "bytes" -> Bytes(<<196, Len(o.v)>> \o o.v)
      [] o.t \in {"list", "tuple"} ->
            LET r == PackItems(o.v, 1, <<>>)
            IN IF r.ok THEN Bytes(<<144 + Len(o.v)>> \o r.b) ELSE r
      [] o.t = "dict" ->
            LET r == PackPairs(o.v, 1, <<>>)
            IN IF r.ok THEN Bytes(<<128 + Len(o.v)>> \o r.b) ELSE r
      [] OTHER -> MsgpackEncoder(o)

(* -------------------------- msgpack.unpackb --------------------------- *)

\* a parsed value and the position after it
Parsed(x, p) == [ok |-> TRUE, val |-> x, pos |-> p]

\* bs[p .. p+n-1]
Slice(bs, p, n) == SubSeq(bs, p, p + n - 1)

\* dict[k] = w on a sequence of pairs: an equal key is overwritten
DictSet(ps, k, w) ==
    IF \E i \in 1..Len(ps) : ps[i][1] = k
    THEN [i \in 1..Len(ps) |-> IF ps[i][1] = k THEN <<k, w>> ELSE ps[i]]
    ELSE Append(ps, <<k, w>>)

RECURSIVE UnpackAt(_, _)
RECURSIVE UnpackItems(_, _, _, _)
RECURSIVE UnpackPairs(_, _, _, _)

\* n array items from position p
UnpackItems(bs, p, n, acc) ==
    IF n = 0 THEN Parsed(PyList(acc), p)
    ELSE LET r == UnpackAt(bs, p)
         IN IF r.ok THEN UnpackItems(bs, r.pos, n - 1, Append(acc, r.val))
            ELSE r

\* n map entries from position p; strict_map_key (the default) admits only
\* str and bytes keys
UnpackPairs(bs, p, n, acc) ==
    IF n = 0 THEN Parsed(PyDict(acc), p)
    ELSE LET k == UnpackAt(bs, p)
         IN IF ~k.ok THEN k
            ELSE IF k.val.t \notin {"str", "bytes"} THEN Raise("ValueError")
            ELSE LET w == UnpackAt(bs, k.pos)
                 IN IF w.ok
                    THEN UnpackPairs(bs, w.pos, n - 1,
                                     DictSet(acc, k.val, w.val))
                    ELSE w

\* a str of n bytes at position p (raw=False: decoded as UTF-8)
UnpackStr(bs, p, n) ==
    IF p + n - 1 > Len(bs) THEN Raise("ValueError")
    ELSE LET u == Utf8Decode(Slice(bs, p, n), 1, <<>>)
         IN IF u.ok THEN Parsed(PyStr(u.cs), p + n) ELSE u

\* an unsigned integer of n bytes at position p
UnpackUint(bs, p, n) ==
    IF p + n - 1 > Len(bs) THEN Raise("ValueError")
    ELSE Parsed(PyInt(BytesToInt(Slice(bs, p, n), <<>>)), p + n)

\* one msgpack object starting at position p
UnpackAt(bs, p) ==
    IF p > Len(bs) THEN Raise("ValueError")
    ELSE LET h == bs[p]
         IN CASE h < 128 -> Parsed(PyInt(BytesToInt(<<h>>, <<>>)), p + 1)
              [] h \in 128..143 -> UnpackPairs(bs, p + 1, h - 128, <<>>)
              [] h \in 144..159 -> UnpackItems(bs, p + 1, h - 144, <<>>)
              [] h \in 160..191 -> UnpackStr(bs, p + 1, h - 160)
              [] h = 192 -> Parsed(PyNone, p + 1)
              [] h = 193 -> Raise("FormatError")
              [] h = 194 -> Parsed(PyBool(FALSE), p + 1)
              [] h = 195 -> Parsed(PyBool(TRUE), p + 1)
              [] h = 196 ->
                    IF p + 1 > Len(bs) \/ p + 1 + bs[p + 1] > Len(bs)
                    THEN Raise("ValueError")
                    ELSE Parsed(PyBytes(Slice(bs, p + 2, bs[p + 1])),
                                p + 2 + bs[p + 1])
              [] h = 204 -> UnpackUint(bs, p + 1, 1)
              [] h = 205 -> UnpackUint(bs, p + 1, 2)
              [] h = 206 -> UnpackUint(bs, p + 1, 4)
              [] h = 207 -> UnpackUint(bs, p + 1, 8)
              [] h = 217 ->
                    IF p + 1 > Len(bs) THEN Raise("ValueError")
                    ELSE UnpackStr(bs, p + 2, bs[p + 1])
              [] OTHER -> Raise("Unmodelled")

\* the object parsed from a buffer of n bytes, which must end with it
OneObject(r, n) ==
    IF ~r.ok THEN r
    ELSE IF r.pos <= n THEN Raise("ExtraData")
    ELSE [ok |-> TRUE, val |-> r.val]

\* msgpack.unpackb(x, raw=False): exactly one object, no trailing bytes
Unpackb(x) ==
    IF x.t # "bytes" THEN Raise("TypeError")
    ELSE OneObject(UnpackAt(x.v, 1), Len(x.v))

(* ----------------------------- json.dumps ----------------------------- *)

\* the ASCII codes of the digits ds
Digits(ds) == [i \in 1..Len(ds) |-> 48 + ds[i]]

\* "null", "true", "false" as ASCII
LitNull == <<110, 117, 108, 108>>

LitTrue == <<116, 114, 117, 101>>

LitFalse == <<102, 97, 108, 115, 101>>

\* the ASCII code of hexadecimal digit n, in lower case
Hex(n) == IF n < 10 THEN 48 + n ELSE 87 + n

\* one character of a str as json writes it (ensure_ascii): printable
\* ASCII as is, a code point from 127 to 65535 as \uxxxx (quotes,
\* backslashes, control and astral characters are outside the model)
DumpChar(c) ==
    CASE c \in 32..126 \ {34, 92} -> Bytes(<<c>>)
      [] c \in 127..65535 ->
            Bytes(<<92, 117, Hex(c \div 4096), Hex((c \div 256) % 16),
                    Hex((c \div 16) % 16), Hex(c % 16)>>)
      [] OTHER -> Raise("Unmodelled")

RECURSIVE DumpChars(_, _, _)
DumpChars(cs, i, acc) ==
    IF i > Len(cs) THEN Bytes(acc)
    ELSE LET r == DumpChar(cs[i])
         IN IF r.ok THEN DumpChars(cs, i + 1, acc \o r.b) ELSE r

\* a str between double quotes
DumpStr(cs) ==
    LET r == DumpChars(cs, 1, <<>>)
    IN IF r.ok THEN Bytes(<<34>> \o r.b \o <<34>>) ELSE r

\* a dict key: str as is; int, bool and None become their text in quotes;
\* any other key is a TypeError
DumpKey(k) ==
    CASE k.t = "str" -> DumpStr(k.v)
      [] k.t = "int" -> Bytes(<<34>> \o Digits(k.v) \o <<34>>)
      [] k.t = "bool" ->
            Bytes(<<34>> \o (IF k.v THEN LitTrue ELSE LitFalse) \o <<34>>)
      [] k.t = "NoneType" -> Bytes(<<34>> \o LitNull \o <<34>>)
      [] OTHER -> Raise("TypeError")

RECURSIVE Dumps(_)
RECURSIVE DumpItems(_, _, _)
RECURSIVE DumpPairs(_, _, _)

\* the items of a list or tuple joined by ", "
DumpItems(xs, i, acc) ==
    IF i > Len(xs) THEN Bytes(acc)
    ELSE LET r == Dumps(xs[i])
         IN IF r.ok
            THEN DumpItems(xs, i + 1,
                     acc \o (IF i > 1 THEN <<44, 32>> ELSE <<>>) \o r.b)
            ELSE r

\* the entries of a dict as key: value joined by ", "
DumpPairs(ps, i, acc) ==
    IF i > Len(ps) THEN Bytes(acc)
    ELSE LET k == DumpKey(ps[i][1])
         IN IF ~k.ok THEN k
            ELSE LET w == Dumps(ps[i][2])
                 IN IF w.ok
                    THEN DumpPairs(ps, i + 1,
                             acc \o (IF i > 1 THEN <<44, 32>> ELSE <<>>)
                                 \o k.b \o <<58, 32>> \o w.b)
                    ELSE w

\* json.dumps(o).encode('utf-8')
Dumps(o) ==
    CASE o.t = "NoneType" -> Bytes(LitNull)
      [] o.t = "bool" -> Bytes(IF o.v THEN LitTrue ELSE LitFalse)
      [] o.t = "int" -> Bytes(Digits(o.v))
      [] o.t = "str" -> DumpStr(o.v)
      [] o.t \in {"list", "tuple"} ->
            LET r == DumpItems(o.v, 1, <<>>)
            IN IF r.ok THEN Bytes(<<91>> \o r.b \o <<93>>) ELSE r
      [] o.t = "dict" ->
            LET r == DumpPairs(o.v, 1, <<>>)
            IN IF r.ok THEN Bytes(<<123>> \o r.b \o <<125>>) ELSE r
      [] OTHER -> Raise("TypeError")

(* ----------------------------- json.loads ----------------------------- *)

RECURSIVE SkipWs(_, _)
\* the first position from p on that holds no JSON whitespace
SkipWs(bs, p) ==
    IF p <= Len(bs) /\ bs[p] \in {32, 9, 10, 13} THEN SkipWs(bs, p + 1)
    ELSE p

\* bs holds the literal lit at position p
HasLit(bs, p, lit) ==
    /\ p + Len(lit) - 1 <= Len(bs)
    /\ Slice(bs, p, Len(lit)) = lit

RECURSIVE EndOfDigits(_, _)
EndOfDigits(bs, p) ==
    IF p <= Len(bs) /\ bs[p] \in 48..57 THEN EndOfDigits(bs, p + 1) ELSE p

\* the value of hexadecimal digit c, or -1
HexVal(c) ==
    CASE c \in 48..57 -> c - 48
      [] c \in 97..102 -> c - 87
      [] c \in 65..70 -> c - 55
      [] OTHER -> -1

\* the code unit of the four hexadecimal digits at p, or -1
Hex4(cs, p) ==
    IF p + 3 > Len(cs) \/ \E i \in 0..3 : HexVal(cs[p + i]) = -1 THEN -1
    ELSE HexVal(cs[p]) * 4096 + HexVal(cs[p + 1]) * 256
            + HexVal(cs[p + 2]) * 16 + HexVal(cs[p + 3])

\* the character of a one-letter escape, or -1
Escape(c) ==
    CASE c = 34 -> 34
      [] c = 92 -> 92
      [] c = 47 -> 47
      [] c = 98 -> 8
      [] c = 102 -> 12
      [] c = 110 -> 10
      [] c = 114 -> 13
      [] c = 116 -> 9
      [] OTHER -> -1

RECURSIVE LoadChars(_, _, _)
\* the text of a JSON string from position p up to its closing quote;
\* control characters are rejected (strict); \uxxxx gives a code unit, and
\* a high surrogate followed by an escaped low surrogate gives one
\* character
LoadChars(cs, p, acc) ==
    IF p > Len(cs) THEN Raise("JSONDecodeError")
    ELSE CASE cs[p] = 34 -> [ok |-> TRUE, val |-> PyStr(acc), pos |-> p + 1]
           [] cs[p] < 32 -> Raise("JSONDecodeError")
           [] cs[p] = 92 /\ p + 1 > Len(cs) -> Raise("JSONDecodeError")
           [] cs[p] = 92 /\ p + 1 <= Len(cs) /\ cs[p + 1] = 117 ->
                 LET u == Hex4(cs, p + 2)
                     w == IF /\ p + 7 <= Len(cs)
                             /\ cs[p + 6] = 92 /\ cs[p + 7] = 117
                          THEN Hex4(cs, p + 8) ELSE -1
                 IN CASE u = -1 -> Raise("JSONDecodeError")
                      [] u \in 55296..56319 /\ w \in 56320..57343 ->
                            LoadChars(cs, p + 12,
                                Append(acc, 65536 + (u - 55296) * 1024
                                                + (w - 56320)))
                      [] OTHER -> LoadChars(cs, p + 6, Append(acc, u))
           [] cs[p] = 92 /\ p + 1 <= Len(cs) /\ cs[p + 1] # 117 ->
                 IF Escape(cs[p + 1]) = -1 THEN Raise("JSONDecodeError")
                 ELSE LoadChars(cs, p + 2, Append(acc, Escape(cs[p + 1])))
           [] OTHER -> LoadChars(cs, p + 1, Append(acc, cs[p]))

\* a JSON string whose opening quote is at p
LoadStr(cs, p) == LoadChars(cs, p + 1, <<>>)

\* a JSON number starting with a digit at p: 0 or a digit string without a
\* leading zero (fractions and exponents are outside the model)
LoadInt(bs, p) ==
    LET e == IF bs[p] = 48 THEN p + 1 ELSE EndOfDigits(bs, p)
    IN IF e <= Len(bs) /\ bs[e] \in {46, 69, 101} THEN Raise("Unmodelled")
       ELSE Parsed(PyInt([i \in 1..(e - p) |-> bs[p + i - 1] - 48]), e)

RECURSIVE LoadAt(_, _)
RECURSIVE LoadItems(_, _, _)
RECURSIVE LoadPairs(_, _, _)

\* the items of an array; p is at the first character of an item
LoadItems(bs, p, acc) ==
    LET r == LoadAt(bs, p)
    IN IF ~r.ok THEN r
       ELSE LET q == SkipWs(bs, r.pos)
            IN CASE q > Len(bs) -> Raise("JSONDecodeError")
                 [] bs[q] = 44 ->
                       LoadItems(bs, SkipWs(bs, q + 1), Append(acc, r.val))
                 [] bs[q] = 93 -> Parsed(PyList(Append(acc, r.val)), q + 1)
                 [] OTHER -> Raise("JSONDecodeError")

\* the entries of an object; p is at the opening quote of a key
LoadPairs(bs, p, acc) ==
    IF p > Len(bs) \/ bs[p] # 34 THEN Raise("JSONDecodeError")
    ELSE LET k == LoadStr(bs, p)
         IN IF ~k.ok THEN k
            ELSE LET c == SkipWs(bs, k.pos)
                 IN IF c > Len(bs) \/ bs[c] # 58
                    THEN Raise("JSONDecodeError")
                    ELSE LET w == LoadAt(bs, SkipWs(bs, c + 1))
                         IN IF ~w.ok THEN w
                            ELSE LET q == SkipWs(bs, w.pos)
                                     d == DictSet(acc, k.val, w.val)
                                 IN CASE q > Len(bs) ->
                                           Raise("JSONDecodeError")
                                      [] bs[q] = 44 ->
                                           LoadPairs(bs, SkipWs(bs, q + 1), d)
                                      [] bs[q] = 125 ->
                                           Parsed(PyDict(d), q + 1)
                                      [] OTHER -> Raise("JSONDecodeError")

\* one JSON value starting at position p
LoadAt(bs, p) ==
    IF p > Len(bs) THEN Raise("JSONDecodeError")
    ELSE LET c == bs[p]
         IN CASE c = 34 -> LoadStr(bs, p)
              [] c = 123 ->
                    LET q == SkipWs(bs, p + 1)
                    IN IF q <= Len(bs) /\ bs[q] = 125
                       THEN Parsed(PyDict(<<>>), q + 1)
                       ELSE LoadPairs(bs, q, <<>>)
              [] c = 91 ->
                    LET q == SkipWs(bs, p + 1)
                    IN IF q <= Len(bs) /\ bs[q] = 93
                       THEN Parsed(PyList(<<>>), q + 1)
                       ELSE LoadItems(bs, q, <<>>)
              [] c = 110 ->
                    IF HasLit(bs, p, LitNull) THEN Parsed(PyNone, p + 4)
                    ELSE Raise("JSONDecodeError")
              [] c = 116 ->
                    IF HasLit(bs, p, LitTrue)
                    THEN Parsed(PyBool(TRUE), p + 4)
                    ELSE Raise("JSONDecodeError")
              [] c = 102 ->
                    IF HasLit(bs, p, LitFalse)
                    THEN Parsed(PyBool(FALSE), p + 5)
                    ELSE Raise("JSONDecodeError")
              [] c \in 48..57 -> LoadInt(bs, p)
              [] c \in {45, 73, 78} -> Raise("Unmodelled")
              [] OTHER -> Raise("JSONDecodeError")

\* the value parsed from the text cs, which must end with it but for
\* whitespace
OneValue(cs, r) ==
    IF ~r.ok THEN r
    ELSE IF SkipWs(cs, r.pos) <= Len(cs) THEN Raise("JSONDecodeError")
    ELSE [ok |-> TRUE, val |-> r.val]

\* json.loads(u) of the decoded text, or the failure of the decoding
LoadsText(u) ==
    IF ~u.ok THEN u ELSE OneValue(u.cs, LoadAt(u.cs, SkipWs(u.cs, 1)))

\* json.loads(x.decode('utf-8')): x must have a decode method (bytes), be
\* valid UTF-8, and hold one JSON value between optional whitespace
Loads(x) ==
    IF x.t # "bytes" THEN Raise("AttributeError")
    ELSE LoadsText(Utf8Decode(x.v, 1, <<>>))

(* ---------------------------- BinaryCodec ----------------------------- *)

\* BinaryCodec(format_type, fallback_json): the constructor stores both
\* arguments as given
BinaryCodec(format_type, fallback_json) ==
    [format_type |-> format_type, fallback_json |-> fallback_json]

\* what BinaryCodec._encode_protobuf may do: fail or produce some bytes
ProtobufEncodeOutcomes == {Raise("EncodeError"), Bytes(<<8, 7>>)}

\* what BinaryCodec._decode_protobuf may do: fail or produce some message
ProtobufDecodeOutcomes ==
    {Raise("DecodeError"), [ok |-> TRUE, val |-> PyObject]}

\* the outcomes of the protobuf primitive that matter to codec c
PbEnc(c) ==
    IF c.format_type = "protobuf" THEN ProtobufEncodeOutcomes
    ELSE {Raise("EncodeError")}

PbDec(c) ==
    IF c.format_type = "protobuf" THEN ProtobufDecodeOutcomes
    ELSE {Raise("DecodeError")}

\* a call that returned x; path names the serializer that produced x and
\* json tells whether the text serializer was called
Returned(x, path, json) ==
    [kind |-> "return", val |-> x, exc |-> "", path |-> path, json |-> json]

\* a call that raised e
Raised(e, json) ==
    [kind |-> "raise", val |-> PyNone, exc |-> e, path |-> "none",
     json |-> json]

\* what the except branch returns when it serializes: the outcome j of the
\* text serializer
TextBytes(j) ==
    IF j.ok THEN Returned(PyBytes(j.b), "fallback", TRUE)
    ELSE Raised(j.exc, TRUE)

\* the try statement of encode with the test of fallback_json left out: the
\* text serializer is tried after every failure of the primary one
EncodeTryAlwaysFallback(c, data, prim) ==
    IF prim.ok THEN Returned(PyBytes(prim.b), "primary", FALSE)
    ELSE TextBytes(Dumps(data))

\* the try statement of encode, prim being the outcome of the primary
\* encoder: its bytes, or the except branch
EncodeTry(c, data, prim) ==
    IF prim.ok THEN Returned(PyBytes(prim.b), "primary", FALSE)
    ELSE IF c.fallback_json THEN TextBytes(Dumps(data))
    ELSE Raised(prim.exc, FALSE)

\* BinaryCodec.encode(data); pb is the outcome of _encode_protobuf(data).
\* With a format_type that is neither, no branch is taken and the method
\* ends without a return statement
Encode(c, data, pb) ==
    IF c.format_type \notin {"messagepack", "protobuf"}
    THEN Returned(PyNone, "none", FALSE)
    ELSE EncodeTry(c, data,
             IF c.format_type = "messagepack" THEN Pack(data) ELSE pb)

\* what the except branch returns when it parses: the outcome j of the text
\* parser
TextValue(j) ==
    IF j.ok THEN Returned(j.val, "fallback", TRUE) ELSE Raised(j.exc, TRUE)

\* the try statement of decode with the except branch re-raising at once:
\* the text parser is never tried
DecodeTryNoFallback(c, binary_data, prim) ==
    IF prim.ok THEN Returned(prim.val, "primary", FALSE)
    ELSE Raised(prim.exc, FALSE)

\* the try statement of decode, prim being the outcome of the primary
\* decoder: its value, or the except branch
DecodeTry(c, binary_data, prim) ==
    IF prim.ok THEN Returned(prim.val, "primary", FALSE)
    ELSE IF c.fallback_json THEN TextValue(Loads(binary_data))
    ELSE Raised(prim.exc, FALSE)

\* BinaryCodec.decode(binary_data, schema); pb is the outcome of
\* _decode_protobuf(binary_data, schema)
Decode(c, binary_data, pb) ==
    IF c.format_type \notin {"messagepack", "protobuf"}
    THEN Returned(PyNone, "none", FALSE)
    ELSE DecodeTry(c, binary_data,
             IF c.format_type = "messagepack" THEN Unpackb(binary_data)
             ELSE pb)

(* ------------------------- the value domain --------------------------- *)

\* 2^64 - 1, the largest integer of the binary format, and 2^64
MaxUint64 == PyInt(<<1, 8, 4, 4, 6, 7, 4, 4, 0, 7, 3, 7, 0, 9, 5, 5, 1, 6, 1, 5>>)

TooBig == PyInt(<<1, 8, 4, 4, 6, 7, 4, 4, 0, 7, 3, 7, 0, 9, 5, 5, 1, 6, 1, 6>>)

Seven == PyInt(<<7>>)

\* the one-character str '\ud800', a lone surrogate: the binary format
\* cannot encode it, the text format escapes it
Surrogate == PyStr(<<55296>>)

\* a list that neither serializer takes: the binary one fails on the
\* surrogate, the text one on the bytes
Unserializable == PyList(<<Surrogate, PyBytes(<<255>>)>>)

Atoms ==
    {PyNone, PyBool(TRUE), PyBool(FALSE), PyInt(<<0>>), Seven,
     PyInt(<<2, 0, 0>>), PyInt(<<6, 5, 5, 3, 6>>), MaxUint64, TooBig,
     PyStr(<<>>), PyStr(<<97>>), PyStr(<<233>>), Surrogate, PyBytes(<<>>),
     PyBytes(<<255>>), PyObject}

ItemAtoms == {PyNone, Seven, Surrogate}

\* the sequences over S of length at most n
SeqUpTo(S, n) == UNION {[1..m -> S] : m \in 0..n}

Containers ==
    {PyList(xs) : xs \in SeqUpTo(ItemAtoms, MaxItems)}
        \cup {PyTuple(xs) : xs \in SeqUpTo(ItemAtoms, MaxItems)}
        \cup {PyDict(<<<<k, w>>>>) : k \in {PyStr(<<97>>), Seven},
                                    w \in ItemAtoms}
        \cup {PyDict(<<>>), Unserializable, PyList(<<PyList(<<Seven>>)>>),
              PyList(<<PyTuple(<<Seven>>)>>),
              PyDict(<<<<PyStr(<<97>>), PyTuple(<<Seven>>)>>>>)}

\* the values handed to the codec
Values == Atoms \cup Containers

\* byte strings that are no encoding of a value: a reserved header, a
\* truncated array, one JSON digit, invalid UTF-8 in a str, nothing
Malformed ==
    {PyBytes(<<193>>), PyBytes(<<146, 7>>), PyBytes(<<55>>),
     PyBytes(<<161, 255>>), PyBytes(<<>>), PyBytes(<<91, 55>>)}

\* the byte strings handed to decode: what either serializer writes for a
\* value of the domain, and the malformed ones
Encodings ==
    {PyBytes(Pack(v).b) : v \in {w \in Values : Pack(w).ok}}
        \cup {PyBytes(Dumps(v).b) : v \in {w \in Values : Dumps(w).ok}}
        \cup Malformed

(* ------------------------- BinaryRedisClient -------------------------- *)

Keys == {"a", "b"}

\* values passed to BinaryRedisClient.set
ClientValues ==
    {PyNone, Seven, PyList(<<Seven>>), PyDict(<<<<Seven, Seven>>>>),
     Surrogate, Unserializable}

\* the operations of a batch: (op_type, key, value), "del" being a kind
\* the client does not know
Operations ==
    {<<"set", k, Seven>> : k \in Keys}
        \cup {<<"set", "a", Unserializable>>}
        \cup {<<"get", k, PyNone>> : k \in Keys}
        \cup {<<"del", "a", PyNone>>}

\* redis.Redis.set(key, data, nx=nx) on store s: the new store and the
\* reply (True, or None when nx finds the key)
RedisSet(s, key, data, nx) ==
    IF nx /\ s[key] # PyNone THEN [store |-> s, reply |-> PyNone]
    ELSE [store |-> [s EXCEPT ![key] = data], reply |-> PyBool(TRUE)]

\* redis.Redis.get(key) with decode_responses=False: the bytes or None
RedisGet(s, key) == s[key]

\* the record of a client call
Call(op, args, kind, val, exc, queue, executed, raw, decoded) ==
    [op |-> op, args |-> args, kind |-> kind, val |-> val, exc |-> exc,
     queue |-> queue, executed |-> executed, raw |-> raw,
     decoded |-> decoded]

\* the end of set: r is what redis.Redis.set did and replied
SetReplied(key, value, nx, r) ==
    /\ store' = r.store
    /\ written' = IF r.reply = PyBool(TRUE)
                  THEN [written EXCEPT ![key] = <<value>>]
                  ELSE written
    /\ last' = Call("set", <<key, value, nx>>, "return", r.reply, "", <<>>,
                    TRUE, <<r.reply>>, <<>>)
    /\ UNCHANGED codec

\* set after self.codec.encode(value) gave e: a failure propagates, the
\* bytes go to the store
SetEncoded(key, value, nx, e) ==
    IF e.kind = "raise"
    THEN /\ last' = Call("set", <<key, value, nx>>, "raise", PyNone, e.exc,
                         <<>>, FALSE, <<>>, <<>>)
         /\ UNCHANGED <<store, written, codec>>
    ELSE SetReplied(key, value, nx, RedisSet(store, key, e.val, nx))

\* BinaryRedisClient.set(key, value, nx=nx)
Set(key, value, nx) ==
    \E pb \in PbEnc(codec) :
        SetEncoded(key, value, nx, Encode(codec, value, pb))

\* the end of get: d is what self.codec.decode(binary_data) gave
GetDecoded(key, binary_data, d) ==
    /\ last' = Call("get", <<key>>, d.kind, d.val, d.exc, <<>>, TRUE,
                    <<binary_data>>, <<binary_data>>)
    /\ UNCHANGED <<store, written, codec>>

\* get without the test of binary_data: every reply is decoded
GetReplyAlwaysDecode(key, binary_data, pb) ==
    GetDecoded(key, binary_data, Decode(codec, binary_data, pb))

\* get after self.client.get(key) gave binary_data: decoded if truthy,
\* else None
GetReply(key, binary_data, pb) ==
    IF Truthy(binary_data)
    THEN GetDecoded(key, binary_data, Decode(codec, binary_data, pb))
    ELSE /\ last' = Call("get", <<key>>, "return", PyNone, "", <<>>, TRUE,
                         <<binary_data>>, <<>>)
         /\ UNCHANGED <<store, written, codec>>

\* BinaryRedisClient.get(key)
Get(key) == \E pb \in PbDec(codec) : GetReply(key, RedisGet(store, key), pb)

\* the pipeline after self.codec.encode(value) gave e for a "set": the
\* bytes are buffered as a SET command
Buffered(pipe, key, value, e) ==
    Append(pipe, [cmd |-> "SET", key |-> key, data |-> e.val,
                  value |-> value])

RECURSIVE Enqueue(_, _, _, _)
RECURSIVE EnqueueSet(_, _, _, _, _)

\* a "set" of the loop: a failure of encode ends the loop
EnqueueSet(c, ops, i, pipe, e) ==
    IF e.kind = "raise" THEN [ok |-> FALSE, exc |-> e.exc, pipe |-> pipe]
    ELSE Enqueue(c, ops, i + 1, Buffered(pipe, ops[i][2], ops[i][3], e))

\* the loop of pipeline_binary_ops: the commands buffered in the pipeline,
\* or the failure of an encode and what was buffered before it
Enqueue(c, ops, i, pipe) ==
    IF i > Len(ops) THEN [ok |-> TRUE, pipe |-> pipe]
    ELSE CASE ops[i][1] = "set" ->
                 EnqueueSet(c, ops, i, pipe,
                     Encode(c, ops[i][3], Raise("EncodeError")))
           [] ops[i][1] = "get" ->
                 Enqueue(c, ops, i + 1,
                     Append(pipe, [cmd |-> "GET", key |-> ops[i][2],
                                   data |-> PyNone, value |-> PyNone]))
           [] OTHER -> Enqueue(c, ops, i + 1, pipe)

RECURSIVE Execute(_, _, _, _, _)
\* pipe.execute(): the buffered commands applied in order; one reply each
Execute(pipe, i, s, w, replies) ==
    IF i > Len(pipe) THEN [store |-> s, written |-> w, replies |-> replies]
    ELSE IF pipe[i].cmd = "SET"
         THEN Execute(pipe, i + 1,
                  RedisSet(s, pipe[i].key, pipe[i].data, FALSE).store,
                  [w EXCEPT ![pipe[i].key] = <<pipe[i].value>>],
                  Append(replies,
                      RedisSet(s, pipe[i].key, pipe[i].data, FALSE).reply))
         ELSE Execute(pipe, i + 1, s, w,
                      Append(replies, RedisGet(s, pipe[i].key)))

RECURSIVE DecodeAll(_, _, _, _, _)
RECURSIVE DecodeOne(_, _, _, _, _, _)

\* one truthy reply of the comprehension, d being its decode: a failure
\* ends the comprehension
DecodeOne(c, results, i, out, decoded, d) ==
    IF d.kind = "raise"
    THEN [kind |-> "raise", val |-> PyNone, exc |-> d.exc,
          decoded |-> Append(decoded, results[i])]
    ELSE DecodeAll(c, results, i + 1, Append(out, d.val),
                   Append(decoded, results[i]))

\* [self.codec.decode(r) if r else None for r in results]
DecodeAll(c, results, i, out, decoded) ==
    IF i > Len(results)
    THEN [kind |-> "return", val |-> PyList(out), exc |-> "",
          decoded |-> decoded]
    ELSE IF Truthy(results[i])
         THEN DecodeOne(c, results, i, out, decoded,
                  Decode(c, results[i], Raise("DecodeError")))
         ELSE DecodeAll(c, results, i + 1, Append(out, PyNone), decoded)

\* the end of pipeline_binary_ops: x is what pipe.execute() did and replied,
\* r what the comprehension gave
PipelineDecoded(operations, pipe, x, r) ==
    /\ store' = x.store
    /\ written' = x.written
    /\ last' = Call("pipeline", operations, r.kind, r.val, r.exc, pipe, TRUE,
                    x.replies, r.decoded)
    /\ UNCHANGED codec

\* pipeline_binary_ops from pipe.execute() on
PipelineExecuted(operations, pipe, x) ==
    PipelineDecoded(operations, pipe, x,
        DecodeAll(codec, x.replies, 1, <<>>, <<>>))

\* pipeline_binary_ops that sends what it has buffered when an encode fails
PipelineQueuedExecuteOnFailure(operations, q) ==
    IF ~q.ok
    THEN /\ store' = Execute(q.pipe, 1, store, written, <<>>).store
         /\ last' = Call("pipeline", operations, "raise", PyNone, q.exc,
                         q.pipe, FALSE, <<>>, <<>>)
         /\ UNCHANGED <<written, codec>>
    ELSE PipelineExecuted(operations, q.pipe,
             Execute(q.pipe, 1, store, written, <<>>))

\* pipeline_binary_ops after its loop gave q: a failure of encode
\* propagates before anything is sent, else the pipeline is executed
PipelineQueued(operations, q) ==
    IF ~q.ok
    THEN /\ last' = Call("pipeline", operations, "raise", PyNone, q.exc,
                         q.pipe, FALSE, <<>>, <<>>)
         /\ UNCHANGED <<store, written, codec>>
    ELSE PipelineExecuted(operations, q.pipe,
             Execute(q.pipe, 1, store, written, <<>>))

\* BinaryRedisClient.pipeline_binary_ops(operations)
PipelineBinaryOps(operations) ==
    PipelineQueued(operations, Enqueue(codec, operations, 1, <<>>))

\* BinaryRedisClient.__init__: an empty store behind the connection and a
\* messagepack codec with the default fallback_json
Init ==
    /\ store = [k \in Keys |-> PyNone]
    /\ written = [k \in Keys |-> <<>>]
    /\ codec = BinaryCodec("messagepack", TRUE)
    /\ last = Call("init", <<>>, "return", PyNone, "", <<>>, FALSE, <<>>,
                   <<>>)

SetStep == \E k \in Keys, v \in ClientValues, nx \in BOOLEAN : Set(k, v, nx)

GetStep == \E k \in Keys : Get(k)

PipelineStep ==
    \E ops \in SeqUpTo(Operations, MaxBatch) : PipelineBinaryOps(ops)

Next == SetStep \/ GetStep \/ PipelineStep

Spec == Init /\ [][Next]_vars

(* ------------------- the codec on its own (CodecSpec) ----------------- *)

\* the codecs the constructor builds: it does not check format_type
Codecs ==
    {BinaryCodec(f, j) : f \in {"messagepack", "protobuf", "cbor"},
                         j \in BOOLEAN}

\* the record of a codec call: r is what Encode or Decode gave
CodecCall(op, arg, r) ==
    [op |-> op, args |-> <<arg>>, kind |-> r.kind, val |-> r.val,
     exc |-> r.exc, path |-> r.path, json |-> r.json]

\* codec.encode(v)
EncodeCall(v) ==
    \E pb \in PbEnc(codec) :
        /\ last' = CodecCall("encode", v, Encode(codec, v, pb))
        /\ UNCHANGED <<store, written, codec>>

\* codec.decode(b)
DecodeCall(b) ==
    \E pb \in PbDec(codec) :
        /\ last' = CodecCall("decode", b, Decode(codec, b, pb))
        /\ UNCHANGED <<store, written, codec>>

\* the end of the round trip: e is what encode gave, d what decode gave
RoundTripDone(v, e, d) ==
    /\ last' = [CodecCall("roundtrip", v, d) EXCEPT !.args = <<v, e>>]
    /\ UNCHANGED <<store, written, codec>>

\* the round trip after encode gave e: a failure of encode propagates
RoundTripEncoded(v, e, pd) ==
    IF e.kind = "raise" THEN RoundTripDone(v, e, e)
    ELSE RoundTripDone(v, e, Decode(codec, e.val, pd))

\* codec.decode(codec.encode(v))
RoundTrip(v) ==
    \E pe \in PbEnc(codec), pd \in PbDec(codec) :
        RoundTripEncoded(v, Encode(codec, v, pe), pd)

CodecInit ==
    /\ store = [k \in Keys |-> PyNone]
    /\ written = [k \in Keys |-> <<>>]
    /\ codec \in Codecs
    /\ last = Call("init", <<>>, "return", PyNone, "", <<>>, FALSE, <<>>,
                   <<>>)

EncodeStep == \E v \in Values : EncodeCall(v)

DecodeStep == \E b \in Encodings : DecodeCall(b)

RoundTripStep == \E v \in Values : RoundTrip(v)

CodecNext == EncodeStep \/ DecodeStep \/ RoundTripStep

CodecSpec == CodecInit /\ [][CodecNext]_vars

(* ------------------------------ claims -------------------------------- *)

\* the value of the last successful write to key k, if any
HasWritten(k) == written[k] # <<>>

LastWritten(k) == written[k][1]

\* the recognised operations of a batch, in order
Recognised(ops) == SelectSeq(ops, LAMBDA o : o[1] \in {"set", "get"})

\* Codec.encode of the client's codec fails on v
EncodeFails(v) == Encode(codec, v, Raise("EncodeError")).kind = "raise"

\* no "set" of the batch fails to encode
AllEncode(ops) ==
    \A i \in 1..Len(ops) : ops[i][1] = "set" => ~EncodeFails(ops[i][3])

RECURSIVE Representable(_)
\* v is a value of the binary format: nil, a boolean, an integer of at most
\* 64 bits, an encodable text, a byte string, an array or a map of such
Representable(v) ==
    CASE v.t \in {"NoneType", "bool", "bytes"} -> TRUE
      [] v.t = "int" -> Len(IntToBytes(v.v)) <= 8
      [] v.t = "str" -> \A i \in 1..Len(v.v) : v.v[i] \notin 55296..57343
      [] v.t = "list" -> \A i \in 1..Len(v.v) : Representable(v.v[i])
      [] v.t = "dict" ->
            \A i \in 1..Len(v.v) :
                Representable(v.v[i][1]) /\ Representable(v.v[i][2])
      [] OTHER -> FALSE

RECURSIVE TextShaped(_)
\* v is built from None, booleans, integers, strs, lists and dicts with str
\* keys: the shapes the text format has
TextShaped(v) ==
    CASE v.t \in {"NoneType", "bool", "int", "str"} -> TRUE
      [] v.t = "list" -> \A i \in 1..Len(v.v) : TextShaped(v.v[i])
      [] v.t = "dict" ->
            \A i \in 1..Len(v.v) :
                v.v[i][1].t = "str" /\ TextShaped(v.v[i][2])
      [] OTHER -> FALSE

\* the primary encoder rejects v and the text encoder accepts it
FallbackCase(v) == ~Pack(v).ok /\ Dumps(v).ok

\* C1: read-your-writes: a get of a key returns a value equal to the value of
\* the last successful write to that key, for every value encode accepts
C1_ReadYourWrites ==
    (last.op = "get" /\ HasWritten(last.args[1])) =>
        (last.kind = "return" /\ PyEq(last.val, LastWritten(last.args[1])))

\* C2: codec round-trip: for every value representable in the primary format
\* and both settings of the fallback, decode(encode(v)) == v
C2_RoundTrip ==
    (/\ last.op = "roundtrip"
     /\ codec.format_type = "messagepack"
     /\ Representable(last.args[1])) =>
        (last.kind = "return" /\ PyEq(last.val, last.args[1]))

C4_BatchShape ==
    (/\ last.op = "pipeline"
     /\ Recognised(last.args) = last.args
     /\ AllEncode(last.args)) =>
        (/\ last.kind = "return"
         /\ Len(last.val.v) = Len(last.args)
         /\ \A i \in 1..Len(last.args) :
               last.args[i][1] = "set" =>
                   (/\ last.val.v[i] = last.raw[i]
                    /\ \A j \in 1..Len(last.decoded) :
                          last.decoded[j] # last.raw[i]))

\* C5: a get, alone or in a batch, gives None only if the store holds no
\* value for the key at that point
C5_AbsentOnlyIfMissing ==
    /\ (last.op = "get" /\ last.kind = "return" /\ last.val = PyNone) =>
           store[last.args[1]] = PyNone
    /\ (last.op = "pipeline" /\ last.kind = "return") =>
           \A i \in 1..Len(last.queue) :
               (last.queue[i].cmd = "GET" /\ last.val.v[i] = PyNone) =>
                   last.raw[i] = PyNone

\* C6: a get of a key that was never written returns None, raises nothing,
\* does not call decode and leaves the store as it was
C6_AbsentKey ==
    [][(last'.op = "get" /\ ~HasWritten(last'.args[1])) =>
           (/\ last'.kind = "return"
            /\ last'.val = PyNone
            /\ last'.decoded = <<>>
            /\ store' = store)]_vars

\* a get of a key never written gave None while the other key holds a value
C6_Witness ==
    /\ last.op = "get"
    /\ ~HasWritten(last.args[1])
    /\ last.val = PyNone
    /\ \E k \in Keys : HasWritten(k) /\ store[k] # PyNone

\* C7: an operation of an unrecognised kind enqueues nothing and gets no
\* result slot: the batch returns exactly the results of its recognised
\* operations, in order
C7_SkippedOps ==
    (/\ last.op = "pipeline"
     /\ Recognised(last.args) # last.args
     /\ AllEncode(last.args)) =>
        (/\ Len(last.queue) = Len(Recognised(last.args))
         /\ \A i \in 1..Len(last.queue) :
               last.queue[i].key = Recognised(last.args)[i][2]
         /\ last.kind = "return"
         /\ Len(last.val.v) = Len(Recognised(last.args)))

\* C8: with the fallback disabled, encode of a value the primary encoder
\* rejects and decode of bytes the primary decoder rejects raise, return
\* nothing, and never call the text serializer
C8_NoFallback ==
    (/\ last.op \in {"encode", "decode"}
     /\ ~codec.fallback_json
     /\ codec.format_type \in {"messagepack", "protobuf"}) =>
        (/\ ~last.json
         /\ last.kind = "return" => last.path = "primary"
         /\ last.kind = "raise" => last.val = PyNone
         /\ (/\ codec.format_type = "messagepack"
             /\ last.op = "encode"
             /\ ~Pack(last.args[1]).ok) => last.kind = "raise"
         /\ (/\ codec.format_type = "messagepack"
             /\ last.op = "decode"
             /\ ~Unpackb(last.args[1]).ok) => last.kind = "raise")

\* with the fallback disabled, encode raised on a value the text encoder
\* would have taken
C8_Witness ==
    /\ last.op = "encode"
    /\ codec = BinaryCodec("messagepack", FALSE)
    /\ last.kind = "raise"
    /\ Dumps(last.args[1]).ok

\* C9: when encode raises in set, or for a "set" of a batch, nothing is sent
\* to the store and the store is as before, the operations enqueued earlier
\* in the batch included
C9_NoWriteOnEncodeFailure ==
    [][/\ (last'.op = "set" /\ EncodeFails(last'.args[2])) =>
              (last'.kind = "raise" /\ ~last'.executed /\ store' = store)
       /\ (/\ last'.op = "pipeline"
           /\ ~AllEncode(last'.args)) =>
              (last'.kind = "raise" /\ ~last'.executed /\ store' = store)]_vars

\* a batch failed to encode after a "set" was enqueued, and the store does
\* not hold what that "set" would have written
C9_Witness ==
    /\ last.op = "pipeline"
    /\ last.kind = "raise"
    /\ ~last.executed
    /\ Len(last.queue) > 0
    /\ last.queue[1].cmd = "SET"
    /\ store[last.queue[1].key] # last.queue[1].data

\* C10: encode and decode either raise or return what an encoder or decoder
\* produced, for every codec the constructor builds
C10_NeverNone ==
    last.op \in {"encode", "decode"} =>
        (last.kind = "raise" \/ last.path \in {"primary", "fallback"})

====
